---- MODULE Spec2Model ----
(***************************************************************************)
(* Looped transmit from a file (vxsdr_tx_loop_file): main() and the option *)
(* helpers it calls, as one sequential state machine.  The radio is the    *)
(* environment: every reply of a radio call is drawn by the action that    *)
(* makes the call.                                                         *)
(*                                                                         *)
(* Units.  The command-line reals duration_sec and pri_sec are carried in  *)
(* whole milliseconds; the doubles main holds for them, and the doubles    *)
(* std::stod returns, are binary64 values computed digit by digit.  Host   *)
(* time_points are carried in microseconds (the host clock is finer than   *)
(* the millisecond the code truncates to).  Radio time and the loop        *)
(* schedule are carried in milliseconds.  Strings are sequences of         *)
(* one-character strings.                                                  *)
(***************************************************************************)
EXTENDS Integers, Sequences, FiniteSets, TLC

VARIABLES
    pc,                    \* position in main()
    status,                \* "running", "complete" or the error that ended the run
    exit_code,             \* process exit status, -1 while running
    duration_sec,          \* vm["duration"], ms
    pri_sec,               \* vm["pri"], ms
    time_source,           \* vm["time_source"]: {} when absent, else {string}
    opts,                  \* the options read by set_network_options and set_tx_1ch_options
    t_now,                 \* what system_clock::now() returns in set_common_options, us
    n_pulses,              \* repetitions computed by main
    n_samples,             \* tx_wf.size()
    issued,                \* radio commands that change radio state, in order
    reported,              \* kinds of message written to std::cerr
    pps,                   \* radio: "idle", "armed" (time waits for the PPS edge), "applied"
    radio_time,            \* radio clock as main last saw or left it, ms; -1 before line 515
    read_synced,           \* no armed time was pending at the reading of line 515
    read_after_upload,     \* put_tx_data had been issued at the reading of line 515
    t_set,                 \* time carried by the set-time command, us (-1: none)
    t_issue,               \* host instant the set-time command was issued, us
    dev_tx_rate,           \* the radio's transmit sample rate after setup, samples/s
    tx_buffer_size_bytes,  \* bsize->at(1)
    dev_granularity,       \* the radio's sample granularity (0: not yet looked at)
    hello_known,           \* hello() returned a value at line 488
    t_start,               \* start time of the loop, radio clock, ms
    n_sent,                \* samples accepted by put_tx_data
    loop_cmd,              \* arguments of tx_loop, <<>> until it is called
    sleep_until,           \* deadline of the final sleep, radio clock, ms
    list_in,               \* argument of a call of interpret_bracketed_list
    list_out               \* what that call gave: called, ok (it returned), exc (it threw), ret

vars == <<pc, status, exit_code, duration_sec, pri_sec, time_source, opts, t_now,
          n_pulses, n_samples, issued, reported, t_set, t_issue, dev_tx_rate,
          tx_buffer_size_bytes, dev_granularity, hello_known,
          t_start, n_sent, loop_cmd, sleep_until, list_in, list_out,
          pps, radio_time, read_synced, read_after_upload>>

\* state of the radio clock and of the reading of line 515
clock_vars == <<pps, radio_time, read_synced, read_after_upload>>

----------------------------------------------------------------------------
(* Bounds of the model *)

MaxDurSteps == 3       \* durations are 0 .. MaxDurSteps steps of 400 ms
MaxPriSteps == 3       \* periods are -1 .. MaxPriSteps steps of 400 ms
MaxSamples == 2        \* samples in the waveform file
MaxRate == 3           \* radio sample rate, samples/s
MaxBufferSamps == 2    \* radio transmit buffer, whole samples
MaxGranularity == 2    \* radio sample granularity
MaxRadioSec == 1       \* radio clock readings lie in 0 .. MaxRadioSec seconds
MaxListLen == 4        \* characters in an argument of interpret_bracketed_list
MaxUploadSec == 1      \* radio time that passes during put_tx_data, whole seconds
MaxLateSteps == 2      \* the sleep of line 172 ends 0 .. MaxLateSteps steps of 100 ms late
MaxPorts == 2          \* ports of the radio that have the name asked for

(* Program constants *)

UsPerMs == 1000
MsPerSec == 1000
max_host_clock_error_ms == 200
WireSampleBytes == 4
NoRate == -1
TrailingMarginMs == 100
StartMarginSec == 1

UsPerSec == UsPerMs * MsPerSec

NsPerMs == 1000000

\* values of --duration and --pri, ms
Durations == {k * 400 : k \in 0..MaxDurSteps}
Periods == {k * 400 : k \in -1..MaxPriSteps}

\* host clock readings, us: on a second, just after it, mid-second, and
\* around the point max_host_clock_error_ms before the next second
HostTimes ==
    {UsPerSec + off : off \in
        {0, 1, UsPerSec \div 2,
         (MsPerSec - max_host_clock_error_ms) * UsPerMs - 1,
         (MsPerSec - max_host_clock_error_ms) * UsPerMs,
         UsPerSec - 1}}

\* radio clock readings, ms
RadioTimes == {s * MsPerSec + off : s \in 0..MaxRadioSec, off \in {0, 1}}

\* radio time that passes while put_tx_data sends the waveform, ms
UploadTimes == {s * MsPerSec : s \in 0..MaxUploadSec}

\* sizes the radio reports for its transmit buffer, bytes
BufferBytes ==
    {b \in 0..(MaxBufferSamps * WireSampleBytes + WireSampleBytes - 1) :
        b % WireSampleBytes \in {0, WireSampleBytes - 1}}

----------------------------------------------------------------------------
(* Strings *)

Str_host == <<"h", "o", "s", "t">>
Str_pps == <<"p", "p", "s">>

\* variant of tolower: characters are compared as typed
tolower_identity(c) == c

\* the letters of the "C" locale, capital and small in the same order
UpperCase == <<"A", "B", "C", "D", "E", "F", "G", "H", "I", "J", "K", "L", "M",
               "N", "O", "P", "Q", "R", "S", "T", "U", "V", "W", "X", "Y", "Z">>
LowerCase == <<"a", "b", "c", "d", "e", "f", "g", "h", "i", "j", "k", "l", "m",
               "n", "o", "p", "q", "r", "s", "t", "u", "v", "w", "x", "y", "z">>

\* std::tolower, line 152: a capital letter gives its small letter, every
\* other character is returned as it is
tolower(c) ==
    IF \E i \in 1..Len(UpperCase) : UpperCase[i] = c
    THEN LowerCase[CHOOSE i \in 1..Len(UpperCase) : UpperCase[i] = c]
    ELSE c

\* the loop of lines 151-153
LowerCased(s) == [i \in 1..Len(s) |-> tolower(s[i])]

\* values of --time_source the runs are started with ({}: option absent)
TimeSources ==
    { {},
      {Str_host},
      {<<"H", "o", "S", "T">>},
      {Str_pps},
      {<<"P", "P", "S">>},
      {<<"g", "p", "s">>} }

----------------------------------------------------------------------------
(* Doubles.  The program computes in IEEE binary64; a double is written here
   as [cls, neg, m, e]: for cls = "finite" its magnitude is m * 2^e with m the
   digits of an odd whole number (<<>> for zero, e = 0 then), for cls "inf"
   and "nan" m is <<>>.  The decimal numerals used on the way are records
   [d, pt] standing for 0.d1d2...dk * 10^pt with d1 # 0 and dk # 0; zero is
   [d |-> <<>>, pt |-> 0]. *)

DecZero == [d |-> <<>>, pt |-> 0]

\* the numeral of the digits d at decimal point pt, all leading and trailing
\* zeros of d removed
Normalize(d, pt) ==
    LET nz == {i \in 1..Len(d) : d[i] # 0}
    IN  IF nz = {} THEN DecZero
        ELSE LET lo == CHOOSE i \in nz : \A j \in 1..(i - 1) : d[j] = 0
                 hi == CHOOSE i \in nz : \A j \in (i + 1)..Len(d) : d[j] = 0
             IN  [d |-> SubSeq(d, lo, hi), pt |-> pt - (lo - 1)]

\* the same when at most the first and the last digit of d are zero
Trim(d, pt) ==
    LET a == IF d # <<>> /\ d[1] = 0 THEN 2 ELSE 1
        b == IF d # <<>> /\ d[Len(d)] = 0 THEN Len(d) - 1 ELSE Len(d)
    IN  IF a > b THEN DecZero ELSE [d |-> SubSeq(d, a, b), pt |-> pt - (a - 1)]

\* 2 * x: a digit receives a carry exactly when the digit after it is >= 5
Double(x) ==
    LET n == Len(x.d)
        at(i) == IF i < 1 \/ i > n THEN 0 ELSE x.d[i]
    IN  Trim([j \in 1..(n + 1) |-> (2 * at(j - 1) + (IF at(j) >= 5 THEN 1 ELSE 0)) % 10],
             x.pt + 1)

\* x / 2: a digit receives 10 exactly when the digit before it is odd
Halve(x) ==
    LET n == Len(x.d)
        at(i) == IF i < 1 \/ i > n THEN 0 ELSE x.d[i]
    IN  Trim([j \in 1..(n + 1) |-> (at(j) + 10 * (at(j - 1) % 2)) \div 2], x.pt)

Double8(x) == Double(Double(Double(Double(Double(Double(Double(Double(x))))))))
Halve8(x) == Halve(Halve(Halve(Halve(Halve(Halve(Halve(Halve(x))))))))
\* x * 2^k for any integer k, halving k until eight steps or fewer are left
RECURSIVE TimesTwoTo(_, _)
TimesTwoTo(x, k) ==
    IF x.d = <<>> \/ k = 0 THEN x
    ELSE IF k = 8 THEN Double8(x)
    ELSE IF k = -8 THEN Halve8(x)
    ELSE IF k > 8 \/ k < -8
    THEN LET h == 8 * ((k \div 2) \div 8)
             y == TimesTwoTo(x, IF h = 0 THEN (IF k > 0 THEN 8 ELSE -8) ELSE h)
         IN  IF y.d = <<>> THEN y
             ELSE TimesTwoTo(y, k - (IF h = 0 THEN (IF k > 0 THEN 8 ELSE -8) ELSE h))
    ELSE IF k >= 1 THEN TimesTwoTo(Double(x), k - 1)
    ELSE TimesTwoTo(Halve(x), k + 1)


\* x < y
DecLess(x, y) ==
    IF y.d = <<>> THEN FALSE
    ELSE IF x.d = <<>> THEN TRUE
    ELSE IF x.pt # y.pt THEN x.pt < y.pt
    ELSE LET n == IF Len(x.d) < Len(y.d) THEN Len(x.d) ELSE Len(y.d)
             diff == {i \in 1..n : x.d[i] # y.d[i]}
         IN  IF diff = {} THEN Len(x.d) < Len(y.d)
             ELSE LET i == CHOOSE k \in diff : \A j \in 1..(k - 1) : x.d[j] = y.d[j]
                  IN  x.d[i] < y.d[i]

\* the bounds of a 53-bit significand, 2^52 and 2^53
TwoTo52 == [d |-> <<4, 5, 0, 3, 5, 9, 9, 6, 2, 7, 3, 7, 0, 4, 9, 6>>, pt |-> 16]
TwoTo53 == [d |-> <<9, 0, 0, 7, 1, 9, 9, 2, 5, 4, 7, 4, 0, 9, 9, 2>>, pt |-> 16]

\* [x, k] with x = v * 2^k and 2^52 <= x < 2^53, for v > 0 known as x / 2^k
RECURSIVE AdjustSignificand(_, _)
AdjustSignificand(x, k) ==
    IF DecLess(x, TwoTo52) THEN AdjustSignificand(Double(x), k + 1)
    ELSE IF ~DecLess(x, TwoTo53) THEN AdjustSignificand(Halve(x), k - 1)
    ELSE [x |-> x, k |-> k]

\* the same for v > 0; the first guess of k takes 3322 / 1000 for the binary
\* logarithm of 10
ScaleToSignificand(v) ==
    LET k == 52 - (v.pt * 3322) \div 1000
    IN  AdjustSignificand(TimesTwoTo(v, k), k)

\* the digits before the decimal point of x, for x.pt >= 0
IntDigits(x) == [i \in 1..x.pt |-> IF i <= Len(x.d) THEN x.d[i] ELSE 0]

\* x is a whole number
IsWhole(x) == Len(x.d) <= x.pt

\* the digits of n + 1 for the digits of a whole number n
IncDigits(ds) ==
    LET n == Len(ds)
        not9 == {i \in 1..n : ds[i] # 9}
    IN  IF not9 = {} THEN <<1>> \o [i \in 1..n |-> 0]
        ELSE LET p == CHOOSE i \in not9 : \A j \in (i + 1)..n : ds[j] = 9
             IN  [i \in 1..n |-> IF i < p THEN ds[i] ELSE IF i = p THEN ds[i] + 1 ELSE 0]

\* x rounded to a whole number, halves to the even neighbour (the rounding
\* of binary64 arithmetic), as a numeral; x >= 1
RoundHalfEven(x) ==
    LET ip == IntDigits(x)
        f == IF IsWhole(x) THEN 0 ELSE x.d[x.pt + 1]
        more == Len(x.d) > x.pt + 1
        up == \/ f > 5
              \/ f = 5 /\ more
              \/ f = 5 /\ ~more /\ ip[Len(ip)] % 2 = 1
    IN  IF up THEN Normalize(IncDigits(ip), Len(IncDigits(ip))) ELSE Normalize(ip, Len(ip))

\* the digits of the whole number n >= 0, <<>> for 0
RECURSIVE DigitsOf(_)
DigitsOf(n) == IF n = 0 THEN <<>> ELSE Append(DigitsOf(n \div 10), n % 10)

\* the whole number with the digits ds
RECURSIVE ValueOf(_)
ValueOf(ds) ==
    IF ds = <<>> THEN 0 ELSE 10 * ValueOf(SubSeq(ds, 1, Len(ds) - 1)) + ds[Len(ds)]

\* the whole number m >= 1 and the exponent e with every factor 2 of m moved
\* into e
RECURSIVE OddForm(_, _)
OddForm(m, e) ==
    LET ds == IntDigits(m)
        n == Len(ds)
        low == ValueOf(SubSeq(ds, IF n > 8 THEN n - 7 ELSE 1, n))
    IN  IF n > 8 /\ low % 256 = 0 THEN OddForm(Halve8(m), e + 8)
        ELSE IF low % 2 = 0 THEN OddForm(Halve(m), e + 1)
        ELSE [m |-> ds, e |-> e]

DoubleZero(neg) == [cls |-> "finite", neg |-> neg, m |-> <<>>, e |-> 0]
DoubleInf(neg) == [cls |-> "inf", neg |-> neg, m |-> <<>>, e |-> 0]
DoubleNaN(neg) == [cls |-> "nan", neg |-> neg, m |-> <<>>, e |-> 0]

\* the finite double of magnitude o.m * 2^o.e
Finite(neg, o) == [cls |-> "finite", neg |-> neg, m |-> o.m, e |-> o.e]

\* the finite double of magnitude m * 2^e, m a numeral of a whole number
MakeDouble(neg, m, e) ==
    IF m.d = <<>> THEN DoubleZero(neg) ELSE Finite(neg, OddForm(m, e))

\* the magnitude of a finite double as a numeral
Magnitude(a) == TimesTwoTo(Normalize(a.m, Len(a.m)), a.e)

\* exponents of binary64: values from 2^1024 on overflow, values below
\* 2^-1022 are kept in multiples of 2^-1074
OverflowExp == 1024
MinNormalExp == -1022
MinSubnormalExp == -1074

\* x = m + 1/2 for a whole number m
HalfAbove(x) == ~IsWhole(x) /\ IsWhole(Double(x))

\* the whole number below x, x >= 1
WholePart(x) == Normalize(IntDigits(x), x.pt)

\* y units of 2^-1074 when that is a double, ERANGE otherwise
WholeUnits(neg, y) ==
    IF IsWhole(y) THEN [erange |-> FALSE, x |-> MakeDouble(neg, y, MinSubnormalExp)]
    ELSE [erange |-> TRUE, x |-> DoubleZero(neg)]

\* most bits strtod drops from a significand of 53 bits below 2^-1022
MaxShift == 53

\* fractional decimal digits strtod reads of a decimal form; the digits
\* after them only tell that the value is not exact
FracDigitsRead == 1076

\* the form of the numeral v has digits strtod does not read
DigitsUnread(v, base) == base = 10 /\ Len(v.d) - v.pt > FracDigitsRead

\* a result below 2^-1022: s.x / 2^s.k is the value to 53 bits and more,
\* shift the number of bits of s.x below 2^-1074, unread whether digits of
\* the form were left unread.  strtod (glibc 2.36, round_and_return) takes
\* the 53 bits, the bit after them and whether more follow; when it shifts,
\* the bit after the 53 is left out unless more follow.  So a value of
\* exactly 54 bits, all its digits read, is taken for its first 53.  errno
\* is set to ERANGE when what is taken is not a whole number of units of
\* 2^-1074
Subnormal(neg, s, shift, unread) ==
    IF shift > MaxShift THEN [erange |-> TRUE, x |-> DoubleZero(neg)]
    ELSE IF HalfAbove(s.x) /\ ~unread
    THEN WholeUnits(neg, TimesTwoTo(WholePart(s.x), 0 - shift))
    ELSE WholeUnits(neg, TimesTwoTo(s.x, 0 - shift))

\* the value s.x / 2^s.k with 2^52 <= s.x < 2^53, m being s.x rounded to a
\* whole number: erange is what sets errno to ERANGE.  A value that rounds
\* to 2^-1022 at 53 bits is not below the normal range
PackDouble(neg, s, m, unread) ==
    LET e0 == 0 - s.k
        top == ~DecLess(m, TwoTo53)
    IN  IF e0 + 53 < MinNormalExp \/ (e0 + 53 = MinNormalExp /\ ~top)
        THEN Subnormal(neg, s, MinSubnormalExp - e0, unread)
        ELSE IF e0 + 53 > OverflowExp \/ (e0 + 53 = OverflowExp /\ top)
        THEN [erange |-> TRUE, x |-> DoubleInf(neg)]
        ELSE [erange |-> FALSE, x |-> MakeDouble(neg, m, e0)]

RoundScaled(neg, s, unread) == PackDouble(neg, s, RoundHalfEven(s.x), unread)

\* the numeral v > 0 rounded to binary64 as strtod does on a decimal
\* (base = 10) or hexadecimal (base = 16) form
RoundToDouble(neg, v, base) ==
    RoundScaled(neg, ScaleToSignificand(v), DigitsUnread(v, base))

\* x - y for x >= y: a digit lends exactly when the digits after it are
\* less in x than in y
DecSub(x, y) ==
    LET pt == x.pt
        n == (IF Len(x.d) - x.pt > Len(y.d) - y.pt THEN Len(x.d) - x.pt
              ELSE Len(y.d) - y.pt) + pt
        xa(i) == IF i <= Len(x.d) THEN x.d[i] ELSE 0
        ya(i) == LET k == i - (pt - y.pt)
                 IN  IF k >= 1 /\ k <= Len(y.d) THEN y.d[k] ELSE 0
        lends(i) == \E k \in (i + 1)..n :
                        /\ xa(k) < ya(k)
                        /\ \A j \in (i + 1)..(k - 1) : xa(j) = ya(j)
    IN  IF y.d = <<>> THEN x
        ELSE Normalize([i \in 1..n |->
                           (xa(i) - ya(i) - (IF lends(i) THEN 1 ELSE 0) + 10) % 10], pt)

\* x + y: a digit receives a carry exactly when the digits after it make one
DecAdd(x, y) ==
    LET pt == 1 + (IF x.pt > y.pt THEN x.pt ELSE y.pt)
        n == (IF Len(x.d) - x.pt > Len(y.d) - y.pt THEN Len(x.d) - x.pt
              ELSE Len(y.d) - y.pt) + pt
        xa(i) == LET k == i - (pt - x.pt)
                 IN  IF k >= 1 /\ k <= Len(x.d) THEN x.d[k] ELSE 0
        ya(i) == LET k == i - (pt - y.pt)
                 IN  IF k >= 1 /\ k <= Len(y.d) THEN y.d[k] ELSE 0
        carries(i) == \E k \in (i + 1)..n :
                          /\ xa(k) + ya(k) >= 10
                          /\ \A j \in (i + 1)..(k - 1) : xa(j) + ya(j) = 9
    IN  IF x.d = <<>> THEN y
        ELSE IF y.d = <<>> THEN x
        ELSE Normalize([i \in 1..n |->
                           (xa(i) + ya(i) + (IF carries(i) THEN 1 ELSE 0)) % 10], pt)

One == [d |-> <<1>>, pt |-> 1]

\* one step of long division by b: the next bit of the quotient q and the
\* remainder r that goes with it
DivisionStep(s, b) ==
    IF DecLess(Double(s.r), b) THEN [q |-> Double(s.q), r |-> Double(s.r)]
    ELSE [q |-> DecAdd(Double(s.q), One), r |-> DecSub(Double(s.r), b)]

\* bits more steps; with no remainder left the further bits are all 0
RECURSIVE QuotientBits(_, _, _)
QuotientBits(s, b, bits) ==
    IF bits = 0 THEN s
    ELSE IF s.r.d = <<>> THEN [q |-> TimesTwoTo(s.q, bits), r |-> s.r]
    ELSE IF bits >= 4
    THEN QuotientBits(DivisionStep(DivisionStep(DivisionStep(DivisionStep(s, b), b), b), b),
                      b, bits - 4)
    ELSE QuotientBits(DivisionStep(s, b), b, bits - 1)

\* the quotient q with remainder r of a division by b, rounded to a whole
\* number with halves to even, times 2^e
RoundQuotient(neg, e, qr, b) ==
    IF \/ DecLess(b, Double(qr.r))
       \/ Double(qr.r) = b /\ IntDigits(qr.q)[qr.q.pt] % 2 = 1
    THEN MakeDouble(neg, DecAdd(qr.q, One), e)
    ELSE MakeDouble(neg, qr.q, e)

\* x / y to 53 bits, times 2^e, for 2^52 <= x < 2 * y and y <= x
DivideSignificands(neg, e, x, y) ==
    RoundQuotient(neg, e - 52, QuotientBits([q |-> One, r |-> DecSub(x, y)], y, 52), y)

\* (sa.x / 2^sa.k) / (sb.x / 2^sb.k) times 2^e, both significands of 53 bits
DivideScaled(neg, e, sa, sb) ==
    IF DecLess(sa.x, sb.x)
    THEN DivideSignificands(neg, e - sa.k + sb.k - 1, Double(sa.x), sb.x)
    ELSE DivideSignificands(neg, e - sa.k + sb.k, sa.x, sb.x)

\* a / b in binary64 for finite a and finite b # 0 whose quotient is in the
\* normal range: the quotient of the significands to 53 bits, rounded with
\* halves to even
fdiv(a, b) ==
    IF a.m = <<>> THEN DoubleZero(a.neg # b.neg)
    ELSE DivideScaled(a.neg # b.neg, a.e - b.e,
                      ScaleToSignificand(Normalize(a.m, Len(a.m))),
                      ScaleToSignificand(Normalize(b.m, Len(b.m))))

\* the double a decimal option value of ms thousandths is read as
MsToDouble(ms) ==
    IF ms = 0 THEN DoubleZero(FALSE)
    ELSE LET a == IF ms < 0 THEN 0 - ms ELSE ms
         IN  RoundToDouble(ms < 0, Normalize(DigitsOf(a), Len(DigitsOf(a)) - 3), 10).x

----------------------------------------------------------------------------
(* interpret_bracketed_list, lines 51-90 *)

left_brackets == <<"[", "(", "{">>
right_brackets == <<"]", ")", "}">>

Digits == {"0", "1", "2", "3", "4", "5", "6", "7", "8", "9"}

DigitVal(c) ==
    CASE c = "0" -> 0 [] c = "1" -> 1 [] c = "2" -> 2 [] c = "3" -> 3
      [] c = "4" -> 4 [] c = "5" -> 5 [] c = "6" -> 6 [] c = "7" -> 7
      [] c = "8" -> 8 [] c = "9" -> 9

\* index of the first matching bracket pair, Len(left_brackets) + 1 if none
\* (the loop of lines 61-68; indices are 1-based here)
FindBracket(list) ==
    LET hits == {i \in 1..Len(left_brackets) :
                    /\ list[1] = left_brackets[i]
                    /\ list[Len(list)] = right_brackets[i]}
    IN  IF hits = {} THEN Len(left_brackets) + 1
        ELSE CHOOSE i \in hits : \A j \in hits : i <= j

\* successive std::getline(iss, number, delim) results on the text s: the
\* pieces between delimiters; an empty piece at the very end is not returned
\* because getline fails when it extracts nothing before end of input
RECURSIVE GetLines(_, _)
GetLines(s, delim) ==
    IF s = <<>> THEN <<>>
    ELSE LET ds == {i \in 1..Len(s) : s[i] = delim}
         IN  IF ds = {} THEN <<s>>
             ELSE LET d == CHOOSE i \in ds : \A j \in ds : i <= j
                  IN  <<SubSeq(s, 1, d - 1)>> \o GetLines(SubSeq(s, d + 1, Len(s)), delim)

\* isspace() in the "C" locale: space, \t, \n, \f, \r and the vertical tab,
\* which is written as the character itself
SpaceChars == {" ", "\t", "\n", "\f", "\r", ""}

HexDigits ==
    Digits \cup {"a", "b", "c", "d", "e", "f", "A", "B", "C", "D", "E", "F"}

HexVal(c) ==
    CASE c \in Digits -> DigitVal(c)
      [] c \in {"a", "A"} -> 10 [] c \in {"b", "B"} -> 11 [] c \in {"c", "C"} -> 12
      [] c \in {"d", "D"} -> 13 [] c \in {"e", "E"} -> 14 [] c \in {"f", "F"} -> 15

\* length of the longest prefix of s made of characters of S
RunLen(s, S) ==
    LET other == {i \in 1..Len(s) : s[i] \notin S}
    IN  IF other = {} THEN Len(s)
        ELSE (CHOOSE i \in other : \A j \in 1..(i - 1) : s[j] \in S) - 1

\* s without its first n characters
Drop(s, n) == SubSeq(s, n + 1, Len(s))

\* number of leading blanks skipped by strtod
SkipSpace(s) == RunLen(s, SpaceChars)

\* value of the leading run of digits of s, continuing from acc
RECURSIVE DigitRun(_, _)
DigitRun(s, acc) ==
    IF s # <<>> /\ Head(s) \in Digits
    THEN DigitRun(Tail(s), 10 * acc + DigitVal(Head(s)))
    ELSE acc

\* exponents beyond this many digits are all far out of the range of a double
ExpDigitsKept == 6

\* the digits of a mantissa at the start of s: digits of ds, at most one
\* point; ok needs a digit before or after the point
ScanMantissa(s, ds) ==
    LET ni == RunLen(s, ds)
        dot == ni < Len(s) /\ s[ni + 1] = "."
        nf == IF dot THEN RunLen(Drop(s, ni + 1), ds) ELSE 0
    IN  [ok |-> ni + nf >= 1,
         ip |-> SubSeq(s, 1, ni),
         fp |-> IF dot THEN SubSeq(s, ni + 2, ni + 1 + nf) ELSE <<>>,
         rest |-> Drop(s, ni + (IF dot THEN 1 ELSE 0) + nf)]

\* the exponent part at the start of s: one of the letters marks, an
\* optional sign and at least one digit; 0 when s does not start with one
ScanExponent(s, marks) ==
    LET signed == Len(s) >= 2 /\ s[2] \in {"+", "-"}
        t == Drop(s, IF signed THEN 2 ELSE 1)
        sig == Drop(t, RunLen(t, {"0"}))
        n == RunLen(sig, Digits)
        mag == DigitRun(IF n > ExpDigitsKept THEN SubSeq(sig, 1, ExpDigitsKept + 1) ELSE sig, 0)
    IN  IF s # <<>> /\ s[1] \in marks /\ t # <<>> /\ t[1] \in Digits
        THEN IF signed /\ s[2] = "-" THEN 0 - mag ELSE mag
        ELSE 0

\* the whole number with the hex digits h[lo..hi] (their values), lo <= hi
RECURSIVE HexWhole(_, _, _)
HexWhole(h, lo, hi) ==
    IF lo = hi THEN Normalize(DigitsOf(h[lo]), Len(DigitsOf(h[lo])))
    ELSE LET mid == (lo + hi) \div 2
         IN  DecAdd(TimesTwoTo(HexWhole(h, lo, mid), 4 * (hi - mid)),
                    HexWhole(h, mid + 1, hi))

\* decimal order of magnitude beyond which no numeral is in, and below
\* which none is a multiple of, the range of binary64
MaxDecimalPt == 310
MinDecimalPt == -330

\* strtod on the decimal form: digits ip.fp times 10^ex
DecimalValue(neg, ip, fp, ex) ==
    LET ds == [i \in 1..(Len(ip) + Len(fp)) |->
                  DigitVal(IF i <= Len(ip) THEN ip[i] ELSE fp[i - Len(ip)])]
        v == Normalize(ds, Len(ip) + ex)
    IN  IF v.d = <<>> THEN [erange |-> FALSE, x |-> DoubleZero(neg)]
        ELSE IF v.pt > MaxDecimalPt THEN [erange |-> TRUE, x |-> DoubleInf(neg)]
        ELSE IF v.pt < MinDecimalPt THEN [erange |-> TRUE, x |-> DoubleZero(neg)]
        ELSE RoundToDouble(neg, v, 10)

\* the whole number w of n hex digits times 2^b
HexScaled(neg, w, b, n) ==
    IF w.d = <<>> THEN [erange |-> FALSE, x |-> DoubleZero(neg)]
    ELSE IF b >= OverflowExp THEN [erange |-> TRUE, x |-> DoubleInf(neg)]
    ELSE IF b + 4 * n < MinSubnormalExp THEN [erange |-> TRUE, x |-> DoubleZero(neg)]
    ELSE RoundToDouble(neg, TimesTwoTo(w, b), 16)

\* strtod on the hexadecimal form: hex digits ip.fp times 2^ex
HexValue(neg, ip, fp, ex) ==
    LET hs == [i \in 1..(Len(ip) + Len(fp)) |->
                  HexVal(IF i <= Len(ip) THEN ip[i] ELSE fp[i - Len(ip)])]
    IN  HexScaled(neg, HexWhole(hs, 1, Len(ip) + Len(fp)), ex - 4 * Len(fp),
                  Len(ip) + Len(fp))

\* std::stod(number.c_str(), NULL), line 81: strtod converts the longest
\* prefix that is a number (blanks, a sign, then inf, nan, a hexadecimal or a
\* decimal form) and ignores what follows it; stod throws
\* std::invalid_argument when there is no such prefix and std::out_of_range
\* when strtod reports ERANGE.  exc names the exception, "" for none
stod(number) ==
    LET a == Drop(number, SkipSpace(number))
        signed == a # <<>> /\ a[1] \in {"+", "-"}
        neg == signed /\ a[1] = "-"
        b == IF signed THEN Tail(a) ELSE a
        word(w) == /\ Len(b) >= Len(w)
                   /\ \A i \in 1..Len(w) : b[i] \in w[i]
        hex == ScanMantissa(Drop(b, 2), HexDigits)
        dec == ScanMantissa(b, Digits)
        value(r) == IF r.erange
                    THEN [ok |-> FALSE, exc |-> "out_of_range", x |-> r.x]
                    ELSE [ok |-> TRUE, exc |-> "", x |-> r.x]
    IN  IF word(<<{"i", "I"}, {"n", "N"}, {"f", "F"}>>)
        THEN [ok |-> TRUE, exc |-> "", x |-> DoubleInf(neg)]
        ELSE IF word(<<{"n", "N"}, {"a", "A"}, {"n", "N"}>>)
        THEN [ok |-> TRUE, exc |-> "", x |-> DoubleNaN(neg)]
        ELSE IF word(<<{"0"}, {"x", "X"}>>) /\ hex.ok
        THEN value(HexValue(neg, hex.ip, hex.fp, ScanExponent(hex.rest, {"p", "P"})))
        ELSE IF dec.ok
        THEN value(DecimalValue(neg, dec.ip, dec.fp, ScanExponent(dec.rest, {"e", "E"})))
        ELSE [ok |-> FALSE, exc |-> "invalid_argument", x |-> DoubleZero(FALSE)]

\* the loop of lines 79-87 over the remaining tokens, r being what stod
\* made of the first of them: exc is the exception that leaves the function,
\* ok = FALSE without one the exit(1) of line 85
RECURSIVE ParseTokens(_, _)
PushBack(tokens, ret, r) ==
    IF r.ok THEN ParseTokens(Tail(tokens), Append(ret, r.x))
    ELSE IF r.exc = "invalid_argument" THEN [ok |-> FALSE, ret |-> <<>>, exc |-> ""]
    ELSE [ok |-> FALSE, ret |-> <<>>, exc |-> r.exc]

ParseTokens(tokens, ret) ==
    IF tokens = <<>> THEN [ok |-> TRUE, ret |-> ret, exc |-> ""]
    ELSE PushBack(tokens, ret, stod(Head(tokens)))

\* ok = FALSE with exc = "" stands for the exit(1) of lines 58, 72 and 85
interpret_bracketed_list(list, delim) ==
    IF Len(list) < 2 THEN [ok |-> FALSE, ret |-> <<>>, exc |-> ""]
    ELSE IF FindBracket(list) = Len(left_brackets) + 1
    THEN [ok |-> FALSE, ret |-> <<>>, exc |-> ""]
    ELSE ParseTokens(GetLines(SubSeq(list, 2, Len(list) - 1), delim), <<>>)

----------------------------------------------------------------------------
(* Clock arithmetic of set_common_options, lines 159-172 *)

Max(a, b) == IF a >= b THEN a ELSE b

\* std::chrono::floor<seconds> and ceil<seconds> of a host time in us
floor_seconds(t) == (t \div UsPerSec) * UsPerSec
ceil_seconds(t) == IF t % UsPerSec = 0 THEN t ELSE floor_seconds(t) + UsPerSec

\* time_point_cast<milliseconds>: truncation to a count of milliseconds
cast_milliseconds(t) == t \div UsPerMs

\* lines 161-162
msecs(t) == cast_milliseconds(t) - cast_milliseconds(floor_seconds(t))

\* variant of pps_t_set: the boundary test is <= instead of <
pps_t_set_le(t) ==
    IF msecs(t) <= MsPerSec - max_host_clock_error_ms
    THEN ceil_seconds(t)
    ELSE ceil_seconds(t) + UsPerSec

\* lines 164-170
pps_t_set(t) ==
    IF msecs(t) < MsPerSec - max_host_clock_error_ms
    THEN ceil_seconds(t)
    ELSE ceil_seconds(t) + UsPerSec

\* line 172: sleep_until returns at the deadline, or at once when the
\* deadline is already past; the result is the instant line 173 runs
\* sleep_until returns at its deadline or any time after it
SleepLateness == {k * 100 * UsPerMs : k \in 0..MaxLateSteps}

pps_wake(t, late) == Max(t, pps_t_set(t) - max_host_clock_error_ms * UsPerMs) + late

----------------------------------------------------------------------------
(* Arithmetic of main *)

\* the whole number nearest to the numeral v, halves upward, v < 2^31
NearestWhole(v) ==
    (IF v.pt <= 0 THEN 0 ELSE ValueOf(IntDigits(v)))
        + (IF v.pt >= 0 /\ Len(v.d) > v.pt /\ v.d[v.pt + 1] >= 5 THEN 1 ELSE 0)

\* std::llround of a finite double below 2^31 in magnitude: the nearest
\* whole number, halves away from zero
llround(q) ==
    IF q.m = <<>> THEN 0
    ELSE IF q.neg THEN 0 - NearestWhole(Magnitude(q))
    ELSE NearestWhole(Magnitude(q))

\* lines 413-417; d and p are the option values in ms
compute_n_pulses(d, p) ==
    IF p > 0 THEN llround(fdiv(MsToDouble(d), MsToDouble(p))) ELSE 0

\* what the path gives to lines 27-31: "missing" does not open; the others
\* open and differ in what tellg() returns after the seek to the end.
\* "sized" returns the size in bytes (a regular file; a directory of procfs
\* returns 0), "no_size" returns -1 (a directory of tmpfs, a file without
\* a size), "huge_size" returns the largest offset (a directory of ext4)
PathKinds == {"missing", "sized", "no_size", "huge_size"}

\* read_cplx_16 on an empty vector: the ways the call can end, n being the
\* value returned and the size of the vector.  With -1 for the size,
\* num_elem is the largest size_t over 4, more than a vector can hold, and
\* the resize of line 35 throws std::length_error; with the largest offset
\* num_elem is what a vector can hold at most and the allocation throws
\* std::bad_alloc.  With num_elem = 0 nothing is resized and line 39 takes
\* front() of an empty vector, which is undefined: the call returns 0 or,
\* in a build with library assertions, the process aborts
read_cplx_16(kind, file_bytes) ==
    LET num_elem == file_bytes \div WireSampleBytes
    IN  IF kind = "missing" THEN {[end |-> "return", n |-> 0]}
        ELSE IF kind = "no_size" THEN {[end |-> "length_error", n |-> 0]}
        ELSE IF kind = "huge_size" THEN {[end |-> "bad_alloc", n |-> 0]}
        ELSE IF num_elem = 0
        THEN {[end |-> "return", n |-> 0], [end |-> "abort", n |-> 0]}
        ELSE {[end |-> "return", n |-> num_elem]}

\* variant of buffer_samps: a partly filled sample slot counts as a sample
buffer_samps_roundup(bytes) == (bytes + WireSampleBytes - 1) \div WireSampleBytes

\* line 478
buffer_samps(bytes) == bytes \div WireSampleBytes

\* lines 461-462: n / rate > pri in real arithmetic, pri in ms and rate in
\* samples/s; rate is NoRate when the query gave no value, 0 gives +infinity
waveform_longer_than_pri(n, rate, pri) ==
    IF rate > 0 THEN n * MsPerSec > pri * rate
    ELSE IF rate = 0 THEN TRUE
    ELSE n * MsPerSec < pri * rate

\* line 515: ceil<seconds> of a radio time in ms, plus 1 s
compute_t_start(t) ==
    (IF t % MsPerSec = 0 THEN t ELSE (t \div MsPerSec) * MsPerSec + MsPerSec)
        + StartMarginSec * MsPerSec

\* line 531-532: duration rounded to whole ms (duration_sec is in ms here)
compute_sleep_until(start, d) == start + d + TrailingMarginMs

----------------------------------------------------------------------------
(* Option helpers *)

\* set_network_options, lines 346-354; ok is the reply of the radio
set_network_options(o, ok) ==
    IF o.payload_size
    THEN [cmds |-> <<"set_max_payload_bytes">>, err |-> ~ok]
    ELSE [cmds |-> <<>>, err |-> FALSE]

\* the replies of set_tx_port (set_rx_port) to the ports that have the name
\* asked for, in the order of their numbers; <<>> when no port has it
PortReplies == UNION {[1..n -> BOOLEAN] : n \in 0..MaxPorts}

TxReplies ==
    [rate_ok : BOOLEAN, freq_ok : BOOLEAN, ports : PortReplies,
     gain_ok : BOOLEAN, bias_ok : BOOLEAN, corr_ok : BOOLEAN]

\* the loop of lines 294-301 (and 221-228): the ports of the name asked for
\* are tried in turn up to the first the radio accepts; tried is the number
\* of calls, set whether one was accepted
PortLoop(ports) ==
    LET accepted == {i \in 1..Len(ports) : ports[i]}
    IN  IF accepted = {} THEN [tried |-> Len(ports), set |-> FALSE]
        ELSE [tried |-> CHOOSE i \in accepted : \A j \in accepted : i <= j,
              set |-> TRUE]

\* the radio calls of that loop and its error line, s being the outcome so
\* far and cmd the call
PortOption(s, p, cmd) ==
    [s EXCEPT !.cmds = @ \o [i \in 1..p.tried |-> cmd], !.err = @ \/ ~p.set]

\* command lines: the options of set_network_options and set_tx_1ch_options
MinimalOptions ==
    [rate |-> TRUE, tx_rate |-> FALSE, freq |-> TRUE, tx_freq |-> FALSE,
     payload_size |-> FALSE, tx_ant |-> FALSE, tx_gain |-> TRUE,
     tx_iq_bias |-> {}, tx_iq_corr |-> {}]

FullOptions ==
    [rate |-> FALSE, tx_rate |-> TRUE, freq |-> FALSE, tx_freq |-> TRUE,
     payload_size |-> TRUE, tx_ant |-> TRUE, tx_gain |-> TRUE,
     tx_iq_bias |-> {<<"(", "1", ",", "2", ")">>},
     tx_iq_corr |-> {<<"[", "1", ",", "0", ",", "0", ",", "1", "]">>}]

OptionSets ==
    { MinimalOptions,
      FullOptions,
      [MinimalOptions EXCEPT !.rate = FALSE],
      [MinimalOptions EXCEPT !.freq = FALSE],
      [MinimalOptions EXCEPT !.tx_iq_bias = {<<"[", "1", ",", "2", ")">>}],
      [MinimalOptions EXCEPT !.tx_iq_bias = {<<"(", "1", ")">>}],
      [FullOptions EXCEPT !.tx_iq_corr = {<<"[", "1", ",", "x", "]">>}],
      [MinimalOptions EXCEPT !.tx_iq_bias = {<<"(", ".", "5", ",", "2", ")">>}],
      [MinimalOptions EXCEPT !.tx_iq_bias = {<<"[", "1", "e", "9", "9", "9", ",", "2", "]">>}] }

\* values of --rx_iq_corr ({}: option absent)
RxLists ==
    { {},
      {<<"[", "1", ",", "0", ",", "0", ",", "1", "]">>},
      {<<"(", "1", ",", "2", ")">>},
      {<<"[", "1", ",", "x", "]">>},
      {<<"[", "1", "e", "9", "9", "9", ",", "0", ",", "0", ",", "1", "]">>} }

\* command lines: the options of set_rx_1ch_options
RxOptionSets ==
    [rate : BOOLEAN, rx_rate : BOOLEAN, freq : BOOLEAN, rx_freq : BOOLEAN,
     rx_ant : BOOLEAN, rx_gain : BOOLEAN, rx_iq_corr : RxLists]

RxReplies ==
    [rate_ok : BOOLEAN, freq_ok : BOOLEAN, ports : PortReplies,
     gain_ok : BOOLEAN, corr_ok : BOOLEAN]

\* interpret_bracketed_list with the default delimiter on every list value
\* of the command lines above, converted once
parsed_lists ==
    [l \in UNION ({o.tx_iq_bias \cup o.tx_iq_corr : o \in OptionSets} \cup RxLists) |->
        interpret_bracketed_list(l, ",")]

\* what follows the call of interpret_bracketed_list at lines 314 and 329,
\* x being what the call gave
ListParsed(s, x, count, cmd, ok) ==
    IF x.exc # "" THEN [s EXCEPT !.exit = "ListOutOfRange"]
    ELSE IF ~x.ok THEN [s EXCEPT !.exit = "MalformedList"]
    ELSE IF Len(x.ret) # count THEN [s EXCEPT !.err = TRUE]
    ELSE [s EXCEPT !.cmds = Append(@, cmd), !.err = @ \/ ~ok]

\* one bracketed-list option of set_tx_1ch_options (lines 313-326, 328-341):
\* s is the outcome so far, opt the option ({} when absent), count the number
\* of values required, cmd the radio call and ok its reply
ListOption(s, opt, count, cmd, ok) ==
    IF s.exit # "" \/ opt = {} THEN s
    ELSE ListParsed(s, parsed_lists[CHOOSE l \in opt : TRUE], count, cmd, ok)

\* set_tx_1ch_options, lines 258-344: o are the options, r the radio's
\* replies.  exit names the exit(1) taken or, as ListOutOfRange, the
\* std::out_of_range thrown ("" when the function returns),
\* cmds the radio calls made up to there, err whether a line "error in
\* set_tx_1ch_options" went to cerr
set_tx_1ch_options(o, r) ==
    LET s1 == IF o.rate \/ o.tx_rate
              THEN [exit |-> "", cmds |-> <<"set_tx_rate">>, err |-> ~r.rate_ok]
              ELSE [exit |-> "MissingRate", cmds |-> <<>>, err |-> FALSE]
        s2 == IF s1.exit # "" THEN s1
              ELSE IF o.freq \/ o.tx_freq
              THEN [s1 EXCEPT !.cmds = Append(@, "set_tx_freq"), !.err = @ \/ ~r.freq_ok]
              ELSE [s1 EXCEPT !.exit = "MissingFrequency"]
        s3 == IF s2.exit # "" \/ ~o.tx_ant THEN s2
              ELSE PortOption(s2, PortLoop(r.ports), "set_tx_port")
        s4 == IF s3.exit # "" \/ ~o.tx_gain THEN s3
              ELSE [s3 EXCEPT !.cmds = Append(@, "set_tx_gain"), !.err = @ \/ ~r.gain_ok]
        s5 == ListOption(s4, o.tx_iq_bias, 2, "set_tx_iq_bias", r.bias_ok)
    IN  ListOption(s5, o.tx_iq_corr, 4, "set_tx_iq_corr", r.corr_ok)

\* set_rx_1ch_options, lines 185-256, in the same terms; main does not call
\* it
set_rx_1ch_options(o, r) ==
    LET s1 == IF o.rate \/ o.rx_rate
              THEN [exit |-> "", cmds |-> <<"set_rx_rate">>, err |-> ~r.rate_ok]
              ELSE [exit |-> "MissingRate", cmds |-> <<>>, err |-> FALSE]
        s2 == IF s1.exit # "" THEN s1
              ELSE IF o.freq \/ o.rx_freq
              THEN [s1 EXCEPT !.cmds = Append(@, "set_rx_freq"), !.err = @ \/ ~r.freq_ok]
              ELSE [s1 EXCEPT !.exit = "MissingFrequency"]
        s3 == IF s2.exit # "" \/ ~o.rx_ant THEN s2
              ELSE PortOption(s2, PortLoop(r.ports), "set_rx_port")
        s4 == IF s3.exit # "" \/ ~o.rx_gain THEN s3
              ELSE [s3 EXCEPT !.cmds = Append(@, "set_rx_gain"), !.err = @ \/ ~r.gain_ok]
    IN  ListOption(s4, o.rx_iq_corr, 4, "set_rx_iq_corr", r.corr_ok)

----------------------------------------------------------------------------
(* The run *)

\* the inputs of a run vary one group at a time around a plain command line
InitInputs ==
    \/ /\ duration_sec \in Durations
       /\ pri_sec \in Periods
       /\ time_source = {Str_host}
       /\ t_now \in {UsPerSec}
       /\ opts = MinimalOptions
    \/ /\ duration_sec = 400 * MaxDurSteps
       /\ pri_sec = 0
       /\ time_source \in TimeSources
       /\ t_now \in HostTimes
       /\ opts = MinimalOptions
    \/ /\ duration_sec = 400 * MaxDurSteps
       /\ pri_sec = 0
       /\ time_source = {Str_host}
       /\ t_now \in {UsPerSec}
       /\ opts \in OptionSets

\* no call of interpret_bracketed_list on its own
NotCalled == [called |-> FALSE, ok |-> FALSE, exc |-> "", ret |-> <<>>]

\* everything but the inputs, as main finds it
InitMain ==
    /\ status = "running"
    /\ pps = "idle"
    /\ radio_time = -1
    /\ read_synced = FALSE
    /\ read_after_upload = FALSE
    /\ exit_code = -1
    /\ n_pulses = 0
    /\ n_samples = 0
    /\ issued = <<>>
    /\ reported = {}
    /\ t_set = -1
    /\ t_issue = -1
    /\ dev_tx_rate = 0
    /\ tx_buffer_size_bytes = 0
    /\ dev_granularity = 0
    /\ hello_known = FALSE
    /\ t_start = -1
    /\ n_sent = -1
    /\ loop_cmd = <<>>
    /\ sleep_until = -1

Init ==
    /\ InitInputs
    /\ list_in = <<>>
    /\ list_out = NotCalled
    /\ pc = "parse"
    /\ InitMain

inputs == <<duration_sec, pri_sec, time_source, opts, t_now, list_in, list_out>>

\* return or exit from main with an error
Fail(kind, code) ==
    /\ pc' = "done"
    /\ status' = kind
    /\ exit_code' = code

\* the statements of main in source order (lines 398-534)
main_order ==
    <<"parse", "read_file", "set_common", "set_network", "set_tx", "check_pri",
      "check_buffer", "check_granularity", "get_time", "compute_start",
      "put_tx_data", "tx_loop", "sleep">>

\* variant of main: the waveform is sent before the checks of lines 460-506
upload_first_order ==
    <<"parse", "read_file", "set_common", "set_network", "set_tx", "put_tx_data",
      "check_pri", "check_buffer", "check_granularity", "get_time", "compute_start",
      "tx_loop", "sleep">>

Successor_upload_first(p) ==
    LET i == CHOOSE k \in 1..Len(upload_first_order) : upload_first_order[k] = p
    IN  IF i = Len(upload_first_order) THEN "done" ELSE upload_first_order[i + 1]

\* the statement main runs after statement p when p does not return
Successor(p) ==
    LET i == CHOOSE k \in 1..Len(main_order) : main_order[k] = p
    IN  IF i = Len(main_order) THEN "done" ELSE main_order[i + 1]

\* fall through to the next statement of main
Continue ==
    /\ pc' = Successor(pc)
    /\ UNCHANGED <<status, exit_code>>

\* lines 398-417
ParseOptions ==
    /\ pc = "parse"
    /\ IF duration_sec <= 0
       THEN Fail("DurationNotPositive", 1) /\ UNCHANGED n_pulses
       ELSE IF pri_sec < 0
       THEN Fail("PriNegative", 1) /\ UNCHANGED n_pulses
       ELSE Continue /\ n_pulses' = compute_n_pulses(duration_sec, pri_sec)
    /\ UNCHANGED <<inputs, clock_vars, n_samples, issued, reported, t_set, t_issue, dev_tx_rate,
                   tx_buffer_size_bytes, dev_granularity, hello_known, t_start,
                   n_sent, loop_cmd, sleep_until>>

\* lines 419-433; an exception is caught at line 535 and main returns 3
ReadWaveform ==
    /\ pc = "read_file"
    /\ \E kind \in PathKinds, file_bytes \in 0..(MaxSamples * WireSampleBytes) :
          \E r \in read_cplx_16(kind, file_bytes) :
             /\ n_samples' = r.n
             /\ IF r.end = "abort" THEN Fail("Aborted", 134)
                ELSE IF r.end = "bad_alloc" THEN Fail("BadAlloc", 3)
                ELSE IF r.end = "length_error" THEN Fail("LengthError", 3)
                ELSE IF r.n = 0 THEN Fail("WaveformUnreadable", 1)
                ELSE Continue
    /\ UNCHANGED <<inputs, clock_vars, n_pulses, issued, reported, t_set, t_issue, dev_tx_rate,
                   tx_buffer_size_bytes, dev_granularity, hello_known, t_start,
                   n_sent, loop_cmd, sleep_until>>

\* set_common_options, lines 148-183 (called at line 456); ok is the reply of
\* the radio to the set-time call, late the time by which the sleep of line
\* 172 overshoots
SetCommonOptions ==
    /\ pc = "set_common"
    /\ \E ok \in BOOLEAN, late \in SleepLateness :
          IF time_source = {}
          THEN Continue /\ UNCHANGED <<issued, reported, t_set, t_issue, pps>>
          ELSE LET ts_str == LowerCased(CHOOSE x \in time_source : TRUE)
               IN  IF ts_str = Str_host
                   THEN /\ issued' = Append(issued, "set_time_now")
                        /\ t_set' = t_now
                        /\ t_issue' = t_now
                        /\ reported' = IF ok THEN reported ELSE reported \cup {"ClockSetFailed"}
                        /\ UNCHANGED pps
                        /\ Continue
                   ELSE IF ts_str = Str_pps
                   THEN /\ issued' = Append(issued, "set_time_next_pps")
                        /\ t_set' = pps_t_set(t_now)
                        /\ t_issue' = pps_wake(t_now, late)
                        /\ reported' = IF ok THEN reported ELSE reported \cup {"ClockSetFailed"}
                        /\ pps' = IF ok THEN "armed" ELSE pps
                        /\ Continue
                   ELSE /\ Fail("UnknownTimeSource", 1)
                        /\ UNCHANGED <<issued, reported, t_set, t_issue, pps>>
    /\ UNCHANGED <<inputs, radio_time, read_synced, read_after_upload, n_pulses, n_samples, dev_tx_rate, tx_buffer_size_bytes,
                   dev_granularity, hello_known, t_start, n_sent, loop_cmd, sleep_until>>

\* line 457
SetNetworkOptions ==
    /\ pc = "set_network"
    /\ \E ok \in BOOLEAN :
          LET r == set_network_options(opts, ok)
          IN  /\ issued' = issued \o r.cmds
              /\ reported' = IF r.err THEN reported \cup {"SetOptionError"} ELSE reported
    /\ Continue
    /\ UNCHANGED <<inputs, clock_vars, n_pulses, n_samples, t_set, t_issue, dev_tx_rate,
                   tx_buffer_size_bytes, dev_granularity, hello_known, t_start,
                   n_sent, loop_cmd, sleep_until>>

\* line 458; rate is the sample rate the radio ends up with.  The
\* std::out_of_range of a list is caught at line 535 and main returns 3
SetTxOptions ==
    /\ pc = "set_tx"
    /\ \E r \in TxReplies, rate \in 1..MaxRate :
          LET s == set_tx_1ch_options(opts, r)
          IN  /\ issued' = issued \o s.cmds
              /\ reported' = IF s.err THEN reported \cup {"SetOptionError"} ELSE reported
              /\ IF s.exit # ""
                 THEN /\ Fail(s.exit, IF s.exit = "ListOutOfRange" THEN 3 ELSE 1)
                      /\ UNCHANGED dev_tx_rate
                 ELSE Continue /\ dev_tx_rate' = rate
    /\ UNCHANGED <<inputs, clock_vars, n_pulses, n_samples, t_set, t_issue,
                   tx_buffer_size_bytes, dev_granularity, hello_known, t_start,
                   n_sent, loop_cmd, sleep_until>>

\* lines 460-466; known tells whether get_tx_rate() returned a value
CheckPri ==
    /\ pc = "check_pri"
    /\ \E known \in BOOLEAN :
          LET rate == IF known THEN dev_tx_rate ELSE NoRate
          IN  IF pri_sec > 0 /\ waveform_longer_than_pri(n_samples, rate, pri_sec)
              THEN Fail("WaveformExceedsPeriod", 1)
              ELSE Continue
    /\ UNCHANGED <<inputs, clock_vars, n_pulses, n_samples, issued, reported, t_set, t_issue,
                   dev_tx_rate, tx_buffer_size_bytes, dev_granularity, hello_known,
                   t_start, n_sent, loop_cmd, sleep_until>>

\* lines 468-483; known tells whether get_buffer_info() returned a value
CheckBuffer ==
    /\ pc = "check_buffer"
    /\ \E known \in BOOLEAN, bytes \in BufferBytes :
          IF ~known
          THEN Fail("BufferInfoUnavailable", 1) /\ UNCHANGED tx_buffer_size_bytes
          ELSE /\ tx_buffer_size_bytes' = bytes
               /\ IF buffer_samps(bytes) < n_samples
                  THEN Fail("WaveformTooLarge", 1)
                  ELSE Continue
    /\ UNCHANGED <<inputs, clock_vars, n_pulses, n_samples, issued, reported, t_set, t_issue,
                   dev_tx_rate, dev_granularity, hello_known, t_start, n_sent,
                   loop_cmd, sleep_until>>

\* variant of gap_warning: the period is not looked at
gap_warning_any_pri(known, pri, n, granularity) ==
    known /\ n % granularity # 0

\* lines 485-495: the warning is written when hello() returned a value and
\* the test of line 492 holds
gap_warning(known, pri, n, granularity) ==
    known /\ pri = 0 /\ n % granularity # 0

\* lines 485-495; known tells whether hello() returned a value, g is what
\* compute_sample_granularity gives for the radio's wire format
CheckGranularity ==
    /\ pc = "check_granularity"
    /\ \E known \in BOOLEAN, g \in 1..MaxGranularity :
          /\ hello_known' = known
          /\ dev_granularity' = g
          /\ reported' = IF gap_warning(known, pri_sec, n_samples, g)
                         THEN reported \cup {"GapWarning"}
                         ELSE reported
    /\ Continue
    /\ UNCHANGED <<inputs, clock_vars, n_pulses, n_samples, issued, t_set, t_issue, dev_tx_rate,
                   tx_buffer_size_bytes, t_start, n_sent, loop_cmd, sleep_until>>

\* lines 500-506; known tells whether get_time_now() returned a value
GetTime ==
    /\ pc = "get_time"
    /\ \E known \in BOOLEAN :
          IF known THEN Continue ELSE Fail("RadioTimeUnavailable", 1)
    /\ UNCHANGED <<inputs, clock_vars, n_pulses, n_samples, issued, reported, t_set, t_issue,
                   dev_tx_rate, tx_buffer_size_bytes, dev_granularity, hello_known,
                   t_start, n_sent, loop_cmd, sleep_until>>

\* line 515; .value() of an empty optional throws, caught at line 535
ComputeStart ==
    /\ pc = "compute_start"
    /\ \E known \in BOOLEAN, t \in RadioTimes :
          IF known
          THEN /\ Continue
               /\ t_start' = compute_t_start(t)
               /\ radio_time' = t
               /\ read_synced' = (pps # "armed")
               /\ read_after_upload' = (\E i \in 1..Len(issued) : issued[i] = "put_tx_data")
          ELSE /\ Fail("Exception", 3)
               /\ UNCHANGED <<t_start, radio_time, read_synced, read_after_upload>>
    /\ UNCHANGED <<inputs, pps, n_pulses, n_samples, issued, reported, t_set, t_issue,
                   dev_tx_rate, tx_buffer_size_bytes, dev_granularity, hello_known,
                   n_sent, loop_cmd, sleep_until>>

\* lines 518-522: what main does with the count put_tx_data returned
after_put_tx_data(sent, n) ==
    [report |-> sent # n, fatal |-> FALSE]

\* lines 518-522; sent is the number of samples the radio accepted, elapsed
\* the radio time that passes while the waveform is sent
PutTxData ==
    /\ pc = "put_tx_data"
    /\ \E sent \in 0..n_samples, elapsed \in UploadTimes :
          LET a == after_put_tx_data(sent, n_samples)
          IN  /\ n_sent' = sent
              /\ radio_time' = IF radio_time = -1 THEN -1 ELSE radio_time + elapsed
              /\ issued' = Append(issued, "put_tx_data")
              /\ reported' = IF a.report THEN reported \cup {"UploadIncomplete"} ELSE reported
              /\ IF a.fatal THEN Fail("UploadIncomplete", 1) ELSE Continue
    /\ UNCHANGED <<inputs, pps, read_synced, read_after_upload, n_pulses, n_samples, t_set, t_issue, dev_tx_rate,
                   tx_buffer_size_bytes, dev_granularity, hello_known, t_start,
                   loop_cmd, sleep_until>>

\* lines 524-529; ok is the reply of the radio
TxLoop ==
    /\ pc = "tx_loop"
    /\ issued' = Append(issued, "tx_loop")
    /\ loop_cmd' = [t_start |-> t_start, n_samples |-> n_samples,
                    pri |-> pri_sec * NsPerMs, n_pulses |-> n_pulses]
    /\ \E ok \in BOOLEAN :
          IF ok THEN Continue ELSE Fail("LoopStartFailed", 1)
    /\ UNCHANGED <<inputs, clock_vars, n_pulses, n_samples, reported, t_set, t_issue, dev_tx_rate,
                   tx_buffer_size_bytes, dev_granularity, hello_known, t_start,
                   n_sent, sleep_until>>

\* lines 531-534 and the end of main
FinalSleep ==
    /\ pc = "sleep"
    /\ sleep_until' = compute_sleep_until(t_start, duration_sec)
    /\ pc' = Successor(pc)
    /\ status' = "complete"
    /\ exit_code' = 0
    /\ UNCHANGED <<inputs, clock_vars, n_pulses, n_samples, issued, reported, t_set, t_issue,
                   dev_tx_rate, tx_buffer_size_bytes, dev_granularity, hello_known,
                   t_start, n_sent, loop_cmd>>

\* the radio at the PPS edge that follows set_time_next_pps (line 175):
\* the armed time becomes the radio's time; main does not wait for it
PpsEdge ==
    /\ pps = "armed"
    /\ pps' = "applied"
    /\ UNCHANGED <<pc, status, exit_code, inputs, n_pulses, n_samples, issued, reported,
                   t_set, t_issue, dev_tx_rate, tx_buffer_size_bytes, dev_granularity,
                   hello_known, t_start, n_sent, loop_cmd, sleep_until,
                   radio_time, read_synced, read_after_upload>>

Next ==
    \/ ParseOptions
    \/ ReadWaveform
    \/ SetCommonOptions
    \/ SetNetworkOptions
    \/ SetTxOptions
    \/ CheckPri
    \/ CheckBuffer
    \/ CheckGranularity
    \/ GetTime
    \/ ComputeStart
    \/ PutTxData
    \/ TxLoop
    \/ FinalSleep
    \/ PpsEdge

Spec == Init /\ [][Next]_vars

TypeOK ==
    /\ pc \in {"parse", "read_file", "set_common", "set_network", "set_tx", "check_pri",
               "check_buffer", "check_granularity", "get_time", "compute_start",
               "put_tx_data", "tx_loop", "sleep", "done"}
    /\ exit_code \in {-1, 0, 1, 3, 134}
    /\ n_samples \in 0..MaxSamples
    /\ pps \in {"idle", "armed", "applied"}
    /\ read_synced \in BOOLEAN /\ read_after_upload \in BOOLEAN
    /\ (status = "running") = (pc # "done")

----------------------------------------------------------------------------
(* A call of set_rx_1ch_options on its own *)

InitRx ==
    /\ opts \in RxOptionSets
    /\ pc = "rx"
    /\ list_in = <<>>
    /\ list_out = NotCalled
    /\ duration_sec = 400
    /\ pri_sec = 0
    /\ time_source = {}
    /\ t_now = UsPerSec
    /\ InitMain

\* the call with the replies r of the radio: exit(1) ends the process, a
\* std::out_of_range leaves the function to its caller
CallRx ==
    /\ pc = "rx"
    /\ \E r \in RxReplies :
          LET s == set_rx_1ch_options(opts, r)
          IN  /\ issued' = issued \o s.cmds
              /\ reported' = IF s.err THEN reported \cup {"SetOptionError"} ELSE reported
              /\ status' = IF s.exit # "" THEN s.exit ELSE status
              /\ exit_code' = IF s.exit \notin {"", "ListOutOfRange"} THEN 1 ELSE exit_code
    /\ pc' = "rx_done"
    /\ UNCHANGED <<inputs, clock_vars, n_pulses, n_samples, t_set, t_issue, dev_tx_rate,
                   tx_buffer_size_bytes, dev_granularity, hello_known, t_start,
                   n_sent, loop_cmd, sleep_until>>

NextRx == CallRx

SpecRx == InitRx /\ [][NextRx]_vars

----------------------------------------------------------------------------
(* Properties *)

Has(cmd) == \E i \in 1..Len(issued) : issued[i] = cmd

\* the run got past the buffer check of lines 478-483
PassedBufferCheck ==
    \/ pc \in {"check_granularity", "get_time", "compute_start", "put_tx_data",
               "tx_loop", "sleep"}
    \/ status \in {"RadioTimeUnavailable", "Exception", "LoopStartFailed", "complete"}

\* C1: with capacity = buffer bytes div sample width, a run that reaches the
\* buffer check passes it iff the waveform length is at most the capacity,
\* ends with WaveformTooLarge otherwise, and put_tx_data and tx_loop are only
\* ever issued for a waveform that fits the capacity.
C1_BufferFit ==
    LET capacity_samples == tx_buffer_size_bytes \div WireSampleBytes
    IN  /\ PassedBufferCheck => n_samples <= capacity_samples
        /\ status = "WaveformTooLarge" => n_samples > capacity_samples
        /\ Has("put_tx_data") \/ Has("tx_loop") => n_samples <= capacity_samples

\* a waveform that exactly fills a buffer whose size is no multiple of the
\* sample width has been uploaded
C1_Witness ==
    /\ Has("put_tx_data")
    /\ tx_buffer_size_bytes % WireSampleBytes # 0
    /\ n_samples = tx_buffer_size_bytes \div WireSampleBytes

ParseValidationErrors ==
    {"MalformedList", "ListOutOfRange", "UnknownTimeSource", "MissingRate",
     "MissingFrequency", "DurationNotPositive", "PriNegative", "WaveformExceedsPeriod", "WaveformTooLarge"}

\* C2 as stated: a run that ends with a parsing or validation error has
\* issued no radio command at all.
C2_NoCommandBeforeError ==
    status \in ParseValidationErrors => issued = <<>>

\* C2 as amended: a run that ends with a parsing or validation error has
\* issued neither put_tx_data nor tx_loop, and when the error is a
\* non-positive duration, a negative period or an unknown time source it has
\* issued no radio command at all.
C2_NoUploadBeforeError ==
    /\ status \in ParseValidationErrors => ~Has("put_tx_data") /\ ~Has("tx_loop")
    /\ status \in {"DurationNotPositive", "PriNegative", "UnknownTimeSource"}
          => issued = <<>>

\* a malformed list ended the run after the rate and frequency were set
C2_Witness ==
    /\ status = "MalformedList"
    /\ Has("set_time_now")
    /\ Has("set_tx_rate")
    /\ ~Has("put_tx_data")

\* C3: tx_loop is issued only after an upload whose accepted count equals
\* the waveform length; a short upload ends the run with UploadIncomplete.
C3_UploadFailureFatal ==
    /\ Has("tx_loop") => n_sent = n_samples
    /\ Has("put_tx_data") /\ n_sent # n_samples => status \in {"running", "UploadIncomplete"}

\* C4: the time carried by set_time_next_pps is the host time rounded up to
\* a whole second when the millisecond within the second is below 800, and
\* one second more otherwise.
C4_PpsTarget ==
    Has("set_time_next_pps") =>
        LET ms == (t_now % UsPerSec) \div UsPerMs
            up == ((t_now + UsPerSec - 1) \div UsPerSec) * UsPerSec
        IN  t_set = IF ms < 800 THEN up ELSE up + UsPerSec

\* the host clock read exactly 800 ms into a second and the command carries
\* the second after next
C4_Witness ==
    /\ Has("set_time_next_pps")
    /\ t_now % UsPerSec = 800 * UsPerMs
    /\ t_set = t_now + 1200 * UsPerMs

\* C5: set_time_next_pps is issued no earlier than 200 ms before the second
\* it carries and strictly before that second.
C5_PpsLeadTime ==
    Has("set_time_next_pps") =>
        /\ t_set - 200 * UsPerMs <= t_issue
        /\ t_issue < t_set

\* C6: the repetitions carried by tx_loop are duration / period rounded to
\* the nearest integer, halves upward, when the period is positive, and 0
\* when the period is 0.
C6_Repetitions ==
    loop_cmd # <<>> =>
        LET r == loop_cmd.n_pulses
        IN  IF pri_sec > 0
            THEN /\ (2 * r - 1) * pri_sec <= 2 * duration_sec
                 /\ 2 * duration_sec < (2 * r + 1) * pri_sec
            ELSE r = 0

\* the run got past the period check of lines 461-466
PassedPriCheck ==
    \/ pc \in {"check_buffer", "check_granularity", "get_time", "compute_start",
               "put_tx_data", "tx_loop", "sleep"}
    \/ status \in {"BufferInfoUnavailable", "WaveformTooLarge", "RadioTimeUnavailable",
                   "Exception", "LoopStartFailed", "complete"}

\* C7: when the period is positive and the waveform lasts longer than the
\* period at the radio's sample rate, the run does not get past the period
\* check and issues neither put_tx_data nor tx_loop, whatever get_tx_rate()
\* returned.
C7_ExceedsPeriodFatal ==
    pri_sec > 0 /\ dev_tx_rate > 0 /\ n_samples * MsPerSec > pri_sec * dev_tx_rate
        => /\ ~PassedPriCheck
           /\ ~Has("put_tx_data")
           /\ ~Has("tx_loop")

\* C8 as stated: once the granularity has been looked at, the warning has
\* been written iff the period is 0 and the length is no multiple of the
\* granularity, never for a positive period, and a run that wrote it ends
\* with the waveform uploaded and tx_loop issued.
C8_GapWarning ==
    dev_granularity # 0 =>
        /\ ("GapWarning" \in reported) = (pri_sec = 0 /\ n_samples % dev_granularity # 0)
        /\ pri_sec > 0 => "GapWarning" \notin reported
        /\ "GapWarning" \in reported /\ pc = "done"
              => Has("put_tx_data") /\ Has("tx_loop")

\* C8 as amended: the warning has been written iff hello() returned a value,
\* the period is 0 and the length is no multiple of the granularity, never
\* for a positive period, and a run that wrote it ends with the waveform
\* uploaded and tx_loop issued unless the radio then failed to report its
\* time.
C8_GapWarningWhenKnown ==
    dev_granularity # 0 =>
        /\ ("GapWarning" \in reported)
              = (hello_known /\ pri_sec = 0 /\ n_samples % dev_granularity # 0)
        /\ pri_sec > 0 => "GapWarning" \notin reported
        /\ "GapWarning" \in reported /\ pc = "done"
              => \/ status \in {"RadioTimeUnavailable", "Exception"}
                 \/ Has("put_tx_data") /\ Has("tx_loop")

\* a run that wrote the warning completed
C8_Witness ==
    /\ "GapWarning" \in reported
    /\ status = "complete"
    /\ Has("tx_loop")

\* C9: a completed run slept until start + duration + 100 ms, and for a
\* positive period and a waveform no longer than the period the last
\* repetition, which starts at start + (repetitions - 1) * period, has ended
\* by then when nothing went wrong on the way (times are multiplied by the
\* sample rate to stay in integers).
C9_SleepCoversLastRepetition ==
    status = "complete" =>
        /\ sleep_until = t_start + duration_sec + 100
        /\ pri_sec > 0 /\ n_samples * MsPerSec <= pri_sec * dev_tx_rate
              /\ reported = {}
              => (t_start + (n_pulses - 1) * pri_sec) * dev_tx_rate + n_samples * MsPerSec
                    <= sleep_until * dev_tx_rate

\* set_common_options has run
PassedSetCommon ==
    /\ pc \notin {"parse", "read_file", "set_common"}
    /\ status \notin {"DurationNotPositive", "PriNegative", "WaveformUnreadable",
                     "BadAlloc", "LengthError", "Aborted"}

HostSpellings == {Str_host, <<"H", "o", "S", "T">>}
PpsSpellings == {Str_pps, <<"P", "P", "S">>}

\* C10: a rejected set-time call is only reported, the run going on to the
\* next statement; a time source that is neither host nor pps in any
\* capitalisation ends the run with status 1 and no set-time call, and only
\* such a time source does.
C10_ClockFailure ==
    /\ [](/\ status = "UnknownTimeSource"
             => /\ exit_code = 1
                /\ ~Has("set_time_now")
                /\ ~Has("set_time_next_pps")
                /\ time_source \cap (HostSpellings \cup PpsSpellings) = {}
          /\ PassedSetCommon /\ time_source # {}
                /\ time_source \cap (HostSpellings \cup PpsSpellings) = {}
             => status = "UnknownTimeSource"
          /\ PassedSetCommon /\ time_source \cap HostSpellings # {}
             => Has("set_time_now")
          /\ PassedSetCommon /\ time_source \cap PpsSpellings # {}
             => Has("set_time_next_pps"))
    /\ [][pc = "set_common" /\ "ClockSetFailed" \in reported'
             => pc' = "set_network" /\ status' = "running" /\ exit_code' = -1]_vars

\* a run whose set-time call was rejected completed the loop
C10_Witness ==
    /\ "ClockSetFailed" \in reported
    /\ Has("put_tx_data")
    /\ Has("tx_loop")
    /\ status = "complete"

----------------------------------------------------------------------------
(* interpret_bracketed_list on its own *)

\* characters of the arguments tried
ListChars == {"[", "]", "(", ")", "{", "}", ",", "1", "x", " ", ".", "e"}

\* longer arguments: fractions, exponents, a hexadecimal form, an infinity,
\* numbers beyond the range of a double
LongArguments ==
    { <<"[", "1", ".", "5", ",", "2", "]">>,
      <<"(", "0", "x", "1", ")">>,
      <<"{", "1", "e", "1", ",", ".", "5", "}">>,
      <<"[", "i", "n", "f", "]">>,
      <<"[", "\t", "1", "]">>,
      <<"[", "1", "e", "9", "9", "9", "]">>,
      <<"[", "1", ",", "1", "e", "-", "9", "9", "9", "]">>,
      <<"[", "1", "e", "9", "9", "9", "x", "]">>,
      <<"(", "1", ".", "5", "x", ",", "2", ")">> }

ListArguments ==
    UNION {[1..n -> ListChars] : n \in 0..MaxListLen} \cup LongArguments

InitList ==
    /\ list_in \in ListArguments
    /\ list_out = NotCalled
    /\ pc = "list"
    /\ duration_sec = 400
    /\ pri_sec = 0
    /\ time_source = {}
    /\ t_now = UsPerSec
    /\ opts = MinimalOptions
    /\ InitMain

\* what a caller sees of a call that gave r
Outcome(r) ==
    [called |-> TRUE, ok |-> r.ok, exc |-> r.exc, ret |-> IF r.ok THEN r.ret ELSE <<>>]

\* a call interpret_bracketed_list(list_in) with the default delimiter;
\* exit(1) and an exception leave nothing to the caller
CallList ==
    /\ pc = "list"
    /\ list_out' = Outcome(interpret_bracketed_list(list_in, ","))
    /\ pc' = "list_done"
    /\ UNCHANGED <<status, exit_code, duration_sec, pri_sec, time_source, opts, t_now,
                   n_pulses, n_samples, issued, reported, t_set, t_issue, dev_tx_rate,
                   tx_buffer_size_bytes, dev_granularity, hello_known, t_start,
                   n_sent, loop_cmd, sleep_until, list_in, clock_vars>>

NextList == CallList

SpecList == InitList /\ [][NextList]_vars

\* what strtod leaves unread of s when s starts with an exponent part
AfterExponent(s, marks) ==
    LET signed == Len(s) >= 2 /\ s[2] \in {"+", "-"}
        t == Drop(s, IF signed THEN 2 ELSE 1)
    IN  IF s # <<>> /\ s[1] \in marks /\ t # <<>> /\ t[1] \in Digits
        THEN Drop(t, RunLen(t, Digits))
        ELSE s

\* what strtod leaves unread of a token: all of it when it starts with no
\* number (the forms infinity and nan(...) are not told from inf and nan)
Unread(tok) ==
    LET a == Drop(tok, SkipSpace(tok))
        b == IF a # <<>> /\ a[1] \in {"+", "-"} THEN Tail(a) ELSE a
        word(w) == /\ Len(b) >= Len(w)
                   /\ \A i \in 1..Len(w) : b[i] \in w[i]
        hex == ScanMantissa(Drop(b, 2), HexDigits)
        dec == ScanMantissa(b, Digits)
    IN  IF word(<<{"i", "I"}, {"n", "N"}, {"f", "F"}>>) THEN Drop(b, 3)
        ELSE IF word(<<{"n", "N"}, {"a", "A"}, {"n", "N"}>>) THEN Drop(b, 3)
        ELSE IF word(<<{"0"}, {"x", "X"}>>) /\ hex.ok
        THEN AfterExponent(hex.rest, {"p", "P"})
        ELSE IF dec.ok THEN AfterExponent(dec.rest, {"e", "E"})
        ELSE tok

\* a token that is a number from its first to its last character: blanks,
\* then one number in a form strtod reads and nothing else
WholeNumber(tok) == tok # <<>> /\ Unread(tok) = <<>>

\* the argument has a pair of brackets of one style around tokens that are
\* all numbers in their entirety
WellFormedList(l) ==
    /\ Len(l) >= 2
    /\ \/ l[1] = "[" /\ l[Len(l)] = "]"
       \/ l[1] = "(" /\ l[Len(l)] = ")"
       \/ l[1] = "{" /\ l[Len(l)] = "}"
    /\ LET tokens == GetLines(SubSeq(l, 2, Len(l) - 1), ",")
       IN  \A i \in 1..Len(tokens) : WholeNumber(tokens[i])

\* C11: a call returns a sequence, one number for each token, only for an
\* argument of length 2 or more in matching brackets whose tokens are all
\* numbers in their entirety; for any other argument it fails and returns
\* nothing.
C11_AllOrNothing ==
    list_out.called =>
        /\ list_out.ok => WellFormedList(list_in)
        /\ ~WellFormedList(list_in) =>
              ~list_out.ok /\ list_out.exc = "" /\ list_out.ret = <<>>
        /\ list_out.ok =>
              Len(list_out.ret) = Len(GetLines(SubSeq(list_in, 2, Len(list_in) - 1), ","))

-----------------------------------------------------------------------------
(* The start instant *)

\* C12: the start instant carried by the loop command is ceil-to-second of a
\* radio time read after the upload completed, plus one second, so when
\* tx_loop is issued it is still at least one second ahead of the radio time.
C12_StartAfterUpload ==
    Has("tx_loop") =>
        /\ read_after_upload
        /\ loop_cmd.t_start = compute_t_start(radio_time)
        /\ loop_cmd.t_start >= radio_time + StartMarginSec * MsPerSec

\* C13: whenever a start instant has been computed in a run that issued
\* set_time_next_pps, the radio time it was computed from was read with no
\* armed time still waiting for its PPS edge.
C13_ReadPostSync ==
    (Has("set_time_next_pps") /\ t_start # -1) => read_synced

\* C14: for a period above zero and a duration above zero the repetitions
\* carried by the loop command are at least 1, never the 0 of an unbounded loop.
C14_NeverUnbounded ==
    (Has("tx_loop") /\ pri_sec > 0 /\ duration_sec > 0) => loop_cmd.n_pulses >= 1

=============================================================================
